---- MODULE Spec2Model ----
(***************************************************************************)
(* Server-side resource handles of wayland-server (resource.rs): the       *)
(* Resource<I> facade over the object registry / backend (ResourceInner).  *)
(* The facade operations are translated from resource.rs; the registry     *)
(* behind them (crate::imp) follows the contract of spec.md, section 4.1.  *)
(***************************************************************************)
EXTENDS Integers, FiniteSets, Sequences, TLC

\* ---------------------------------------------------------------- bounds
\* Number of registry entries that can ever be allocated.
MaxEntries == 2
\* The interface's maximum supported version; event k exists since version k.
InterfaceMaxVersion == 2
\* Cap on the number of events put on the wire.
MaxWire == 1
\* Cap on the number of handles naming one entry.
MaxRefs == 2

\* ---------------------------------------------------------------- domains
Clients == {"c1", "c2"}
Callbacks == {"f1", "f2"}
Values == {"a", "b"}
Versions == 1..InterfaceMaxVersion

\* Option<T>: None is the empty tuple, Some(x) the one-element tuple.
None == <<>>
Some(x) == <<x>>

VARIABLES
    native_lib,   \* cfg(feature = "native_lib"): the delegating backend is selected
    objects,      \* registry entries, by entry reference
    clients,      \* per client: connected, faulted
    wire,         \* number of events handed to the transport
    refs,         \* per entry: the number of handles that name it
    sending,      \* a send in progress on another thread, if any
    last          \* the last operation and its outcome

vars == <<native_lib, objects, clients, wire, refs, sending, last>>

\* The registry slots of this run.
EntryRefs == DOMAIN objects

\* Object ids inside one client connection.
Ids == 1..Cardinality(EntryRefs)

\* A slot of the registry that holds no entry yet.
NoObject ==
    [exists |-> FALSE, id |-> 0, version |-> 0, alive |-> FALSE,
     external |-> FALSE, client |-> "", user_data |-> None,
     request_filter |-> None, destructor_filter |-> None,
     destructor_calls |-> 0,
     registered |-> FALSE,   \* found by lookup
     destructor_saw |-> None] \* what the destructor filter observed when it ran

\* A freshly allocated entry: empty user data, no filters.
NewObject(c, i, v, a, x) ==
    [NoObject EXCEPT !.exists = TRUE, !.id = i, !.version = v, !.alive = a,
                     !.external = x, !.client = c, !.registered = a]

\* The entries that have been allocated.
Created == {e \in EntryRefs : objects[e].exists}

\* ---------------------------------------------------------------- messages
\* I::Event values: opcode k is the event introduced in version k.
Events == {[opcode |-> k, since |-> k] : k \in Versions}
since(msg) == msg.since

\* Filter::new(f): a filter value wrapping the callback f.
FilterNew(f) == [cb |-> f]

\* ---------------------------------------------------------------- outcomes
Outcome(op, outcome, arg) == [op |-> op, outcome |-> outcome, arg |-> arg]

\* The operation returned (or panicked) without touching registry state.
ReturnArg(op, outcome, arg) ==
    /\ last' = Outcome(op, outcome, arg)
    /\ UNCHANGED <<native_lib, refs, sending, objects, clients, wire>>

Return(op, outcome) == ReturnArg(op, outcome, None)

\* ---------------------------------------------------------------- backend
\* lookup(id): the registered entry of client c with that id, if any.
lookup(c, i) ==
    LET hit == {e \in Created : /\ objects[e].registered
                                /\ objects[e].client = c
                                /\ objects[e].id = i}
    IN  IF hit = {} THEN None ELSE Some(CHOOSE e \in hit : TRUE)

\* ResourceInner / registry operations (spec.md 4.1, 4.2).
inner_is_alive(r) == objects[r].alive

inner_is_external(r) == objects[r].external

\* version: 0 for a dead entry; for an externally owned object the external
\* owner's answer, which is 0 when the object is not tracked.
inner_version(r) ==
    IF objects[r].alive \/ objects[r].external THEN objects[r].version ELSE 0

inner_equals(r, o) == r = o

inner_same_client_as(r, o) ==
    /\ objects[r].alive
    /\ objects[o].alive
    /\ objects[r].client = objects[o].client

inner_user_data(r) == objects[r].user_data

inner_client(r) == IF objects[r].alive THEN Some(objects[r].client) ELSE None

inner_id(r) == objects[r].id

inner_clone(r) == r

\* send_event: silent on a dead entry, otherwise serialise and transmit.
send_event(r, msg) ==
    IF ~objects[r].alive /\ ~objects[r].external
    THEN /\ last' = Outcome("send", "dropped", Some(<<r, msg.opcode>>))
         /\ UNCHANGED <<native_lib, refs, objects, clients, wire>>
    ELSE /\ wire < MaxWire
         /\ wire' = wire + 1
         /\ last' = Outcome("send", "sent", Some(<<r, msg.opcode>>))
         /\ UNCHANGED <<native_lib, refs, objects, clients>>

\* ResourceInner::send, called with nothing else running.
inner_send(r, msg) == send_event(r, msg) /\ UNCHANGED sending

\* post_error: marks the owning client as faulted.
inner_post_error(r) ==
    IF objects[r].alive /\ clients[objects[r].client].connected
    THEN /\ clients' = [clients EXCEPT ![objects[r].client].faulted = TRUE]
         /\ last' = Outcome("post_error", "faulted", None)
         /\ UNCHANGED <<native_lib, refs, sending, objects, wire>>
    ELSE Return("post_error", "dropped")

\* assign: the request filter is set at most once; re-setting fails.
inner_assign(r, filter) ==
    IF objects[r].request_filter # None
    THEN Return("assign", "panic")
    ELSE /\ objects' = [objects EXCEPT ![r].request_filter = Some(filter)]
         /\ last' = Outcome("assign", "ok", None)
         /\ UNCHANGED <<native_lib, refs, sending, clients, wire>>

\* assign_destructor: the destructor filter is set at most once.
inner_assign_destructor(r, filter) ==
    IF objects[r].destructor_filter # None
    THEN Return("assign_destructor", "panic")
    ELSE /\ objects' = [objects EXCEPT ![r].destructor_filter = Some(filter)]
         /\ last' = Outcome("assign_destructor", "ok", None)
         /\ UNCHANGED <<native_lib, refs, sending, clients, wire>>

\* ---------------------------------------------------------------- handle
\* Resource<I>: a handle carries only its ResourceInner.
wrap(inner) == [inner |-> inner]

\* The handles in existence: one value per entry that some handle names.
Handles == {wrap(e) : e \in {o \in Created : refs[o] > 0}}

\* Liveness decided by looking the handle's id up again.
is_alive_by_lookup(h) == lookup(objects[h.inner].client, inner_id(h.inner)) # None

is_alive(h) == inner_is_alive(h.inner)

\* The version read from the entry whether or not it is alive.
version_stored(h) == objects[h.inner].version

\* The interface's own version in place of the entry's.
version_of_interface(h) == IF inner_is_alive(h.inner) THEN InterfaceMaxVersion ELSE 0

version(h) == inner_version(h.inner)

\* Equality decided by the numeric id.
equals_by_id(h, other) == inner_id(h.inner) = inner_id(other.inner)

equals(h, other) == inner_equals(h.inner, other.inner)

eq(h, other) == equals(h, other)

\* The clients compared without regard to liveness.
same_client_as_unchecked(h, other) == objects[h.inner].client = objects[other.inner].client

same_client_as(h, other) == inner_same_client_as(h.inner, other.inner)

\* User data withheld once the object is dead.
user_data_while_alive(h) == IF inner_is_alive(h.inner) THEN inner_user_data(h.inner) ELSE None

user_data(h) == inner_user_data(h.inner)

Client_make(c) == [inner |-> c]

\* The client handed out whether or not the object is alive.
client_unchecked(h) == Some(Client_make(objects[h.inner].client))

client(h) ==
    IF inner_client(h.inner) = None
    THEN None
    ELSE Some(Client_make(inner_client(h.inner)[1]))

id(h) == inner_id(h.inner)

\* A clone that resolves the object again by client and id.
clone_by_id(h) ==
    [inner |-> CHOOSE e \in Created :
                  /\ objects[e].client = objects[h.inner].client
                  /\ objects[e].id = objects[h.inner].id
                  /\ \A o \in Created :
                         (objects[o].client = objects[e].client /\ objects[o].id = objects[e].id)
                             => e <= o]

clone(h) == [inner |-> inner_clone(h.inner)]

\* send with the version comparison off by one.
send_off_by_one(h, msg) ==
    IF \/ native_lib /\ ~inner_is_external(h.inner) /\ ~is_alive(h)
       \/ ~native_lib /\ ~is_alive(h)
    THEN ReturnArg("send", "dropped", Some(<<h.inner, msg.opcode>>))
    ELSE IF since(msg) >= version(h)
         THEN ReturnArg("send", "panic", Some(<<h.inner, msg.opcode>>))
         ELSE inner_send(h.inner, msg)

\* send with the version check ahead of the liveness check.
send_version_first(h, msg) ==
    IF since(msg) > version(h)
    THEN ReturnArg("send", "panic", Some(<<h.inner, msg.opcode>>))
    ELSE IF \/ native_lib /\ ~inner_is_external(h.inner) /\ ~is_alive(h)
            \/ ~native_lib /\ ~is_alive(h)
         THEN ReturnArg("send", "dropped", Some(<<h.inner, msg.opcode>>))
         ELSE inner_send(h.inner, msg)

\* send: liveness check, then version check, then the backend.
\* send with the liveness check of the self-contained backend in both builds.
send_liveness_only(h, msg) ==
    IF ~is_alive(h)
    THEN ReturnArg("send", "dropped", Some(<<h.inner, msg.opcode>>))
    ELSE IF since(msg) > version(h)
         THEN ReturnArg("send", "panic", Some(<<h.inner, msg.opcode>>))
         ELSE inner_send(h.inner, msg)

send(h, msg) ==
    IF \/ native_lib /\ ~inner_is_external(h.inner) /\ ~is_alive(h)
       \/ ~native_lib /\ ~is_alive(h)
    THEN ReturnArg("send", "dropped", Some(<<h.inner, msg.opcode>>))
    ELSE IF since(msg) > version(h)
         THEN ReturnArg("send", "panic", Some(<<h.inner, msg.opcode>>))
         ELSE inner_send(h.inner, msg)

\* send on a thread of its own, next to the dispatch flow: the liveness check,
\* the version check and the backend's send are three calls, and the dispatch
\* flow can run between any two of them.
send_is_alive(h, msg) ==
    /\ sending = None
    /\ IF \/ native_lib /\ ~inner_is_external(h.inner) /\ ~is_alive(h)
          \/ ~native_lib /\ ~is_alive(h)
       THEN ReturnArg("send", "dropped", Some(<<h.inner, msg.opcode>>))
       ELSE /\ sending' = Some([self |-> h, msg |-> msg, pc |-> "version"])
            /\ last' = Outcome("send", "is_alive", Some(<<h.inner, msg.opcode>>))
            /\ UNCHANGED <<native_lib, refs, objects, clients, wire>>

send_version ==
    /\ sending # None
    /\ sending[1].pc = "version"
    /\ IF since(sending[1].msg) > version(sending[1].self)
       THEN /\ sending' = None
            /\ last' = Outcome("send", "panic",
                               Some(<<sending[1].self.inner, sending[1].msg.opcode>>))
       ELSE /\ sending' = Some([sending[1] EXCEPT !.pc = "inner"])
            /\ last' = Outcome("send", "version",
                               Some(<<sending[1].self.inner, sending[1].msg.opcode>>))
    /\ UNCHANGED <<native_lib, refs, objects, clients, wire>>

send_inner ==
    /\ sending # None
    /\ sending[1].pc = "inner"
    /\ send_event(sending[1].self.inner, sending[1].msg)
    /\ sending' = None

\* post_error that never reaches the backend.
post_error_dropped(h) == Return("post_error", "dropped")

post_error(h) == inner_post_error(h.inner)

\* clone as an operation: one more handle names the entry of the clone.
clone_handle(h) ==
    /\ refs[h.inner] < MaxRefs
    /\ refs' = [refs EXCEPT ![clone(h).inner] = @ + 1]
    /\ last' = Outcome("clone", "ok", None)
    /\ UNCHANGED <<native_lib, sending, objects, clients, wire>>

\* A drop that destroys the object when its last handle goes.
drop_destroying_last(h) ==
    /\ refs' = [refs EXCEPT ![h.inner] = @ - 1]
    /\ objects' = [objects EXCEPT ![h.inner].alive = (refs[h.inner] > 1 /\ @)]
    /\ last' = Outcome("drop", "ok", None)
    /\ UNCHANGED <<native_lib, sending, clients, wire>>

\* Dropping a handle: Resource has no Drop of its own, the handle just goes.
drop(h) ==
    /\ refs' = [refs EXCEPT ![h.inner] = @ - 1]
    /\ last' = Outcome("drop", "ok", None)
    /\ UNCHANGED <<native_lib, sending, objects, clients, wire>>

\* assign handing its filter to the destructor slot.
assign_as_destructor(h, filter) == inner_assign_destructor(h.inner, filter)

\* assign that binds the filter to every entry of the handle's client.
assign_every_entry(h, filter) ==
    IF objects[h.inner].request_filter # None
    THEN Return("assign", "panic")
    ELSE /\ objects' = [e \in EntryRefs |->
                           IF /\ objects[e].exists
                              /\ objects[e].client = objects[h.inner].client
                              /\ objects[e].request_filter = None
                           THEN [objects[e] EXCEPT !.request_filter = Some(filter)]
                           ELSE objects[e]]
         /\ last' = Outcome("assign", "ok", None)
         /\ UNCHANGED <<native_lib, refs, sending, clients, wire>>

assign(h, filter) == inner_assign(h.inner, filter)

\* assign_mono storing its closure without going through assign.
assign_mono_overwrite(h, f) ==
    /\ objects' = [objects EXCEPT ![h.inner].request_filter = Some(FilterNew(f))]
    /\ last' = Outcome("assign", "ok", None)
    /\ UNCHANGED <<native_lib, refs, sending, clients, wire>>

assign_mono(h, f) == assign(h, FilterNew(f))

\* assign_destructor handing its filter to the request slot.
assign_destructor_as_request(h, filter) == inner_assign(h.inner, filter)

assign_destructor(h, filter) == inner_assign_destructor(h.inner, filter)

\* ---------------------------------------------------------------- registry
\* The first free registry slot.
NextEntry == CHOOSE e \in EntryRefs \ Created : \A o \in EntryRefs \ Created : e <= o

\* create(interface, version, client): a new live entry; fails above the
\* interface's maximum version.
\* The id the registry hands out next for client c: the lowest one not in use.
FreeId(c) == CHOOSE i \in Ids : lookup(c, i) = None /\ \A j \in 1..(i - 1) : lookup(c, j) # None

create(c, i, v) ==
    /\ clients[c].connected
    /\ lookup(c, i) = None
    /\ IF v > InterfaceMaxVersion
       THEN Return("create", "fail")
       ELSE /\ Created # EntryRefs
            /\ objects' = [objects EXCEPT ![NextEntry] = NewObject(c, i, v, TRUE, FALSE)]
            /\ refs' = [refs EXCEPT ![NextEntry] = 1]
            /\ last' = Outcome("create", "ok", None)
            /\ UNCHANGED <<native_lib, sending, clients, wire>>

\* The effect of mark_dead on one entry: the first call flips alive and
\* invokes the destructor filter, if one is registered; later calls do nothing.
\* What the destructor filter observes of the entry o it is invoked for.
Observed(o) == Some([is_alive |-> o.alive, lookup |-> o.registered])

\* The destructor filter of o, if one is registered, is invoked.
DestructorInvoked(o) ==
    IF o.destructor_filter # None
    THEN [o EXCEPT !.destructor_calls = @ + 1, !.destructor_saw = Observed(o)]
    ELSE o

\* mark_dead taking the entry out of lookup before the destructor runs.
MarkedDead_unregistered_first(o) ==
    IF ~o.alive
    THEN o
    ELSE DestructorInvoked([o EXCEPT !.alive = FALSE, !.registered = FALSE])

MarkedDead(o) ==
    IF ~o.alive
    THEN o
    ELSE [DestructorInvoked([o EXCEPT !.alive = FALSE]) EXCEPT !.registered = FALSE]

mark_dead(e) ==
    IF ~objects[e].alive
    THEN Return("mark_dead", "noop")
    ELSE /\ objects' = [objects EXCEPT ![e] = MarkedDead(objects[e])]
         /\ last' = Outcome("mark_dead", "dead", None)
         /\ UNCHANGED <<native_lib, refs, sending, clients, wire>>

\* dispatch_request: the driver looks the target up, then invokes the
\* registered request filter; without a filter the request is dropped.
dispatch_request(c, i) ==
    /\ clients[c].connected
    /\ IF lookup(c, i) = None
       THEN Return("dispatch_request", "miss")
       ELSE LET e == lookup(c, i)[1]
            IN  IF objects[e].request_filter = None
                THEN Return("dispatch_request", "dropped")
                ELSE /\ last' = Outcome("dispatch_request", "invoked",
                                        Some(<<e, objects[e].request_filter[1]>>))
                     /\ UNCHANGED <<native_lib, refs, sending, objects, clients, wire>>

\* Connection teardown: mark_dead cascades to every entry the client owns.
Teardown(op, c) ==
    /\ clients[c].connected
    /\ clients' = [clients EXCEPT ![c].connected = FALSE]
    /\ objects' = [e \in EntryRefs |->
                      IF objects[e].exists /\ objects[e].client = c
                      THEN MarkedDead(objects[e])
                      ELSE objects[e]]
    /\ last' = Outcome(op, "closed", None)
    /\ UNCHANGED <<native_lib, refs, sending, wire>>

client_disconnect(c) == Teardown("client_disconnect", c)

\* The driver observes the fault flag after a dispatch cycle.
driver_teardown(c) ==
    /\ clients[c].faulted
    /\ Teardown("driver_teardown", c)

\* ------------------------------------------------- C interfacing methods
\* Raw pointers: NULL, or the address of the object in slot e.
NULL == None
Ptrs == {NULL} \cup {Some(e) : e \in EntryRefs}

\* The fault of every C interfacing method without the native_lib feature.
NativeLibPanic(op) == Return(op, "panic_native_lib")

\* The backend allocates the entry o; the caller gets the one handle to it.
Allocate(op, outcome, o) ==
    /\ Created # EntryRefs
    /\ objects' = [objects EXCEPT ![NextEntry] = o]
    /\ refs' = [refs EXCEPT ![NextEntry] = 1]
    /\ last' = Outcome(op, outcome, None)
    /\ UNCHANGED <<native_lib, sending, clients, wire>>

\* ResourceInner::c_ptr: the object's address, NULL once it is dead.
inner_c_ptr(r) ==
    IF objects[r].alive \/ objects[r].external THEN Some(r) ELSE NULL

\* ResourceInner::init_from_c_ptr: NULL gives an already-dead object, a new
\* object is taken under management.
inner_init_from_c_ptr(ptr, c, v) ==
    IF ptr = NULL
    THEN Allocate("init_from_c_ptr", "dead", NewObject("", 0, 0, FALSE, FALSE))
    ELSE /\ Created # EntryRefs
         /\ ptr = Some(NextEntry)
         /\ clients[c].connected
         /\ Allocate("init_from_c_ptr", "managed", NewObject(c, FreeId(c), v, TRUE, FALSE))

\* ResourceInner::from_c_ptr: NULL gives an already-dead object, a pointer
\* got from c_ptr() another handle to the same object, the object of another
\* library an unmanaged one whose version x is the external owner's answer
\* (0 when it is not tracked).
inner_from_c_ptr(ptr, x) ==
    IF ptr = NULL
    THEN Allocate("from_c_ptr", "dead", NewObject("", 0, 0, FALSE, FALSE))
    ELSE IF ptr[1] \in Created
         THEN /\ inner_c_ptr(ptr[1]) = ptr
              /\ refs[ptr[1]] < MaxRefs
              /\ refs' = [refs EXCEPT ![ptr[1]] = @ + 1]
              /\ last' = Outcome("from_c_ptr", "same", None)
              /\ UNCHANGED <<native_lib, sending, objects, clients, wire>>
         ELSE /\ ptr = Some(NextEntry)
              /\ Allocate("from_c_ptr", "external", NewObject("", 0, x, FALSE, TRUE))

\* ResourceInner::make_child_for: a new object of the same client and
\* version under the id i, or nothing when the parent is dead or i is taken.
inner_make_child_for(r, i) ==
    IF /\ objects[r].alive
       /\ lookup(objects[r].client, i) = None
       /\ Created # EntryRefs
    THEN Allocate("make_child_for", "some",
                  NewObject(objects[r].client, i, objects[r].version, TRUE, FALSE))
    ELSE Return("make_child_for", "none")

\* is_external without the feature gate.
is_external_ungated(h) ==
    ReturnArg("is_external", "ok", Some(inner_is_external(h.inner)))

is_external(h) ==
    IF native_lib
    THEN ReturnArg("is_external", "ok", Some(inner_is_external(h.inner)))
    ELSE NativeLibPanic("is_external")

c_ptr(h) ==
    IF native_lib
    THEN ReturnArg("c_ptr", "ok", inner_c_ptr(h.inner))
    ELSE NativeLibPanic("c_ptr")

init_from_c_ptr(ptr, c, v) ==
    IF native_lib
    THEN inner_init_from_c_ptr(ptr, c, v)
    ELSE NativeLibPanic("init_from_c_ptr")

from_c_ptr(ptr, x) ==
    IF native_lib
    THEN inner_from_c_ptr(ptr, x)
    ELSE NativeLibPanic("from_c_ptr")

make_child_for(h, i) ==
    IF native_lib
    THEN inner_make_child_for(h.inner, i)
    ELSE NativeLibPanic("make_child_for")

\* The driver wraps the entry it looked up in a fresh handle.
lookup_handle(c, i) ==
    /\ lookup(c, i) # None
    /\ refs[lookup(c, i)[1]] < MaxRefs
    /\ refs' = [refs EXCEPT ![wrap(lookup(c, i)[1]).inner] = @ + 1]
    /\ last' = Outcome("lookup", "ok", None)
    /\ UNCHANGED <<native_lib, sending, objects, clients, wire>>

\* UserData: the slot is initialised once.
user_data_set(h, v) ==
    IF user_data(h) # None
    THEN Return("user_data_set", "already")
    ELSE /\ objects' = [objects EXCEPT ![h.inner].user_data = Some(v)]
         /\ last' = Outcome("user_data_set", "ok", None)
         /\ UNCHANGED <<native_lib, refs, sending, clients, wire>>

\* ---------------------------------------------------------------- actions
\* Each action draws its inputs from the sets it is given.
Create(C, V) == \E c \in C, v \in V : Created # EntryRefs /\ create(c, FreeId(c), v)
Send == \E h \in Handles, msg \in Events : send(h, msg)
PostError == \E h \in Handles : post_error(h)
Assign(F) == \E h \in Handles, f \in F : assign(h, FilterNew(f))
AssignMono(F) == \E h \in Handles, f \in F : assign_mono(h, f)
AssignDestructor(F) == \E h \in Handles, f \in F : assign_destructor(h, FilterNew(f))
MarkDead == \E e \in Created : mark_dead(e)
DispatchRequest(C) == \E c \in C, i \in Ids : dispatch_request(c, i)
ClientDisconnect(C) == \E c \in C : client_disconnect(c)
DriverTeardown(C) == \E c \in C : driver_teardown(c)
UserDataSet == \E h \in Handles, v \in Values : user_data_set(h, v)
SendIsAlive == \E h \in Handles, msg \in Events : send_is_alive(h, msg)
SendVersion == send_version
SendInner == send_inner
IsExternal == \E h \in Handles : is_external(h)
CPtr == \E h \in Handles : c_ptr(h)
InitFromCPtr(C) == \E ptr \in Ptrs, c \in C, v \in Versions : init_from_c_ptr(ptr, c, v)
FromCPtr == \E ptr \in Ptrs, x \in 0..InterfaceMaxVersion : from_c_ptr(ptr, x)
MakeChildFor == \E h \in Handles, i \in Ids : make_child_for(h, i)
CloneHandle == \E h \in Handles : clone_handle(h)
DropHandle == \E h \in Handles : drop(h)
LookupHandle(C) == \E c \in C, i \in Ids : lookup_handle(c, i)

InitWith(nl, n) ==
    /\ native_lib = nl
    /\ objects = [e \in 1..n |-> NoObject]
    /\ clients = [c \in Clients |-> [connected |-> TRUE, faulted |-> FALSE]]
    /\ wire = 0
    /\ refs = [e \in 1..n |-> 0]
    /\ sending = None
    /\ last = Outcome("init", "ok", None)

\* ---------------------------------------------------------------- specifications
\* The self-contained backend: the object lifecycle on two client
\* connections, every entry created at the interface's maximum version.
Init == InitWith(FALSE, MaxEntries)

Next ==
    \/ Create(Clients, {InterfaceMaxVersion, InterfaceMaxVersion + 1})
    \/ Send
    \/ PostError
    \/ Assign({"f1"})
    \/ MarkDead
    \/ DispatchRequest(Clients)
    \/ ClientDisconnect(Clients)
    \/ DriverTeardown(Clients)

Spec == Init /\ [][Next]_vars

\* Sending events to entries of every version, live and dead, on one connection.
NextSend ==
    \/ Create({"c1"}, 1..(InterfaceMaxVersion + 1))
    \/ Send
    \/ MarkDead
    \/ ClientDisconnect({"c1"})

SpecSend == Init /\ [][NextSend]_vars

\* Request and destructor filters on one connection.
NextFilter ==
    \/ Create({"c1"}, {InterfaceMaxVersion})
    \/ Assign(Callbacks)
    \/ AssignMono(Callbacks)
    \/ AssignDestructor({"f1"})
    \/ DispatchRequest({"c1"})
    \/ MarkDead
    \/ ClientDisconnect({"c1"})

SpecFilter == Init /\ [][NextFilter]_vars

\* Every operation of the lifecycle on entries of every version, one connection.
NextVersion ==
    \/ Create({"c1"}, 1..(InterfaceMaxVersion + 1))
    \/ Send
    \/ PostError
    \/ Assign({"f1"})
    \/ DispatchRequest({"c1"})
    \/ MarkDead
    \/ DriverTeardown({"c1"})

SpecVersion == Init /\ [][NextVersion]_vars

\* Protocol errors and the driver's teardown; the driver looks at every
\* client's fault flag after each dispatch cycle, so a teardown that stays
\* due is eventually carried out.
NextTeardown ==
    \/ Create(Clients, {InterfaceMaxVersion})
    \/ AssignDestructor({"f1"})
    \/ PostError
    \/ MarkDead
    \/ DriverTeardown(Clients)

SpecTeardown ==
    /\ Init
    /\ [][NextTeardown]_vars
    /\ \A c \in Clients : WF_vars(driver_teardown(c))

\* Handles created, cloned and dropped around the life of their entries.
NextHandles ==
    \/ Create({"c1"}, {InterfaceMaxVersion})
    \/ CloneHandle
    \/ DropHandle
    \/ LookupHandle({"c1"})
    \/ Assign({"f1"})
    \/ MarkDead
    \/ ClientDisconnect({"c1"})

SpecHandles == Init /\ [][NextHandles]_vars

\* The self-contained backend: the C interfacing methods next to the others.
NextNativeOff ==
    \/ Create({"c1"}, Versions)
    \/ IsExternal
    \/ CPtr
    \/ InitFromCPtr({"c1"})
    \/ FromCPtr
    \/ MakeChildFor
    \/ Send
    \/ MarkDead

SpecNativeOff == Init /\ [][NextNativeOff]_vars

\* A thread sending events while the dispatch flow marks entries dead.
NextRace ==
    \/ Create({"c1"}, Versions)
    \/ SendIsAlive
    \/ SendVersion
    \/ SendInner
    \/ MarkDead
    \/ ClientDisconnect({"c1"})

SpecRace == Init /\ [][NextRace]_vars

\* The delegating backend: managed entries next to externally owned objects.
InitNative == InitWith(TRUE, MaxEntries)

NextNative ==
    \/ Create({"c1"}, {InterfaceMaxVersion})
    \/ FromCPtr
    \/ Send
    \/ MarkDead

SpecNative == InitNative /\ [][NextNative]_vars

\* User data across the death of an entry.
NextData ==
    \/ Create({"c1"}, {InterfaceMaxVersion})
    \/ UserDataSet
    \/ MarkDead
    \/ ClientDisconnect({"c1"})

SpecData == Init /\ [][NextData]_vars

\* ---------------------------------------------------------------- properties
\* C1: once is_alive() is false for an entry it is false after every further
\* operation: the alive flag only ever goes from true to false.
C1_AliveNeverReturns ==
    [][\A h \in Handles : ~is_alive(h) => ~is_alive(h)']_vars

\* A dead entry whose id has been handed out again to a new, live entry.
C1_Witness ==
    \E h, k \in Handles :
        /\ ~is_alive(h)
        /\ is_alive(k)
        /\ id(h) = id(k)
        /\ objects[h.inner].client = objects[k.inner].client

C3_VersionGating ==
    [][\A h \in Handles, msg \in Events :
          (is_alive(h) /\ send(h, msg)) =>
              IF since(msg) > objects[h.inner].version
              THEN /\ last' = Outcome("send", "panic", Some(<<h.inner, msg.opcode>>))
                   /\ wire' = wire
              ELSE /\ last' = Outcome("send", "sent", Some(<<h.inner, msg.opcode>>))
                   /\ wire' = wire + 1]_vars

\* A send has just panicked on a live entry, after an earlier event went out.
C3_Witness ==
    /\ last.op = "send"
    /\ last.outcome = "panic"
    /\ objects[last.arg[1][1]].alive
    /\ last.arg[1][2] > objects[last.arg[1][1]].version
    /\ wire > 0

\* C4: send through a handle to a dead entry transmits nothing, raises no
\* fault and changes neither the entries nor the clients, whatever the event.
C4_DeadSendSilent ==
    [][\A h \in Handles, msg \in Events :
          (~is_alive(h) /\ send(h, msg)) =>
              /\ last' = Outcome("send", "dropped", Some(<<h.inner, msg.opcode>>))
              /\ UNCHANGED <<objects, clients, wire>>]_vars

\* An event newer than the entry's version has just been dropped on a dead entry.
C4_Witness ==
    /\ last.op = "send"
    /\ last.outcome = "dropped"
    /\ ~objects[last.arg[1][1]].alive
    /\ last.arg[1][2] > objects[last.arg[1][1]].version

\* C5: the filter given to assign_destructor lands in the destructor slot, it
\* is invoked exactly once by the step that kills the entry, and no step on a
\* dead entry invokes it again.
C5_DestructorOnce ==
    [][/\ \A h \in Handles, f \in Callbacks :
              (assign_destructor(h, FilterNew(f)) /\ last'.outcome = "ok") =>
                  objects'[h.inner].destructor_filter = Some(FilterNew(f))
       /\ \A e \in Created :
              /\ (objects[e].alive /\ objects'[e].alive) =>
                     objects'[e].destructor_calls = 0
              /\ (objects[e].alive /\ ~objects'[e].alive) =>
                     objects'[e].destructor_calls =
                         IF objects[e].destructor_filter # None THEN 1 ELSE 0
              /\ ~objects[e].alive =>
                     objects'[e].destructor_calls = objects[e].destructor_calls]_vars

\* A second mark_dead has just run on an entry whose destructor fired once.
C5_Witness ==
    /\ last.op = "mark_dead"
    /\ last.outcome = "noop"
    /\ \A e \in Created :
           /\ ~objects[e].alive
           /\ objects[e].destructor_filter # None
           /\ objects[e].destructor_calls = 1
    /\ Created # {}

\* C6: two handles are equal exactly when they name the same entry; a handle
\* to the entry that reuses a destroyed entry's id differs from the old one.
C6_EqualityIsEntryIdentity ==
    \A h, k \in Handles : eq(h, k) <=> (h.inner = k.inner)

\* An id reused after destruction: two entries, same client and id, unequal handles.
C6_Witness ==
    \E h, k \in Handles :
        /\ h.inner # k.inner
        /\ id(h) = id(k)
        /\ objects[h.inner].client = objects[k.inner].client
        /\ ~is_alive(h)
        /\ is_alive(k)
        /\ ~eq(h, k)
        /\ eq(k, wrap(lookup(objects[k.inner].client, id(k))[1]))

\* C7: same_client_as is false when either entry is dead, and true only for
\* two live entries of one client.
C7_SameClientNeedsLiveness ==
    \A h, k \in Handles :
        /\ (~is_alive(h) \/ ~is_alive(k)) => ~same_client_as(h, k)
        /\ same_client_as(h, k) =>
               /\ is_alive(h)
               /\ is_alive(k)
               /\ objects[h.inner].client = objects[k.inner].client

\* Two entries created on one client, one of them dead: the check says false,
\* also for the dead handle against its own clone.
C7_Witness ==
    \E h, k \in Handles :
        /\ h.inner # k.inner
        /\ objects[h.inner].client = objects[k.inner].client
        /\ ~is_alive(h)
        /\ is_alive(k)
        /\ ~same_client_as(h, k)
        /\ ~same_client_as(h, clone(h))
        /\ same_client_as(k, clone(k))

\* C8: a value held in an entry's user data is read back unchanged after any
\* step that leaves the entry dead: mark_dead neither clears nor replaces it.
C8_UserDataSurvivesDeath ==
    [][\A h \in Handles :
          (user_data(h) # None /\ ~is_alive(h)') => user_data(h)' = user_data(h)]_vars

\* mark_dead has just run and the dead entry still holds its value.
C8_Witness ==
    /\ last.op = "mark_dead"
    /\ last.outcome = "dead"
    /\ \E h \in Handles : ~is_alive(h) /\ user_data(h) = Some("b")

\* C9: a filter slot that is set stays as it is; assign and assign_destructor
\* on a set slot panic and change nothing, and a dispatched request invokes
\* the filter that was registered first.
C9_FilterSingleBinding ==
    [][/\ \A e \in Created :
              /\ objects[e].request_filter # None =>
                     objects'[e].request_filter = objects[e].request_filter
              /\ objects[e].destructor_filter # None =>
                     objects'[e].destructor_filter = objects[e].destructor_filter
       /\ \A h \in Handles, f \in Callbacks :
              /\ (objects[h.inner].request_filter # None
                      /\ last'.op = "assign"
                      /\ (assign(h, FilterNew(f)) \/ assign_mono(h, f))) =>
                     /\ last' = Outcome("assign", "panic", None)
                     /\ UNCHANGED <<objects, clients, wire>>
              /\ (objects[h.inner].destructor_filter # None
                      /\ last'.op = "assign_destructor"
                      /\ assign_destructor(h, FilterNew(f))) =>
                     /\ last' = Outcome("assign_destructor", "panic", None)
                     /\ UNCHANGED <<objects, clients, wire>>
       /\ \A c \in Clients, i \in Ids :
              (last'.outcome = "invoked" /\ dispatch_request(c, i)) =>
                  last'.arg = Some(<<lookup(c, i)[1],
                                     objects[lookup(c, i)[1]].request_filter[1]>>)]_vars

\* A second assign has just panicked on an entry whose two slots are set.
C9_Witness ==
    /\ last.op = "assign"
    /\ last.outcome = "panic"
    /\ \E e \in Created :
           /\ objects[e].alive
           /\ objects[e].request_filter = Some(FilterNew("f2"))
           /\ objects[e].destructor_filter = Some(FilterNew("f1"))

\* C10: client() is None exactly for dead entries, and for a live entry it is
\* the client that owns the entry.
C10_ClientIffAlive ==
    \A h \in Handles :
        /\ (client(h) = None) <=> ~is_alive(h)
        /\ is_alive(h) => client(h) = Some(Client_make(objects[h.inner].client))

\* A live entry of c2 beside a dead entry.
C10_Witness ==
    \E h, k \in Handles :
        /\ is_alive(h)
        /\ client(h) = Some(Client_make("c2"))
        /\ ~is_alive(k)
        /\ client(k) = None

\* C11: version() is 0 through every handle to a dead entry, whatever version
\* the entry was created with.
C11_VersionZeroWhenDead ==
    \A h \in Handles :
        (~is_alive(h) /\ ~objects[h.inner].external) => version(h) = 0

\* A dead entry that was created at the interface's maximum version.
C11_Witness ==
    \E h \in Handles :
        /\ ~is_alive(h)
        /\ objects[h.inner].version = InterfaceMaxVersion
        /\ version(h) = 0

\* C12: create fails above the interface's maximum version and allocates
\* nothing; a created entry reports the version it was created with, at most
\* the maximum, and no later step changes the version of an entry.
C12_VersionImmutable ==
    [][/\ \A v \in 1..(InterfaceMaxVersion + 1), n \in EntryRefs :
              (Created # EntryRefs /\ n = NextEntry /\ create("c1", FreeId("c1"), v)) =>
                  IF v > InterfaceMaxVersion
                  THEN /\ last' = Outcome("create", "fail", None)
                       /\ objects' = objects
                  ELSE /\ version(wrap(n))' = v
                       /\ objects'[n].version = v
       /\ \A h \in Handles :
              /\ objects'[h.inner].version = objects[h.inner].version
              /\ objects[h.inner].version \in 1..InterfaceMaxVersion
              /\ is_alive(h)' => version(h)' = version(h)]_vars

\* An entry created below the maximum version, still alive after a send, an
\* assign and a post_error, and a create that has just been refused.
C12_Witness ==
    /\ last = Outcome("create", "fail", None)
    /\ wire > 0
    /\ clients["c1"].faulted
    /\ \E h \in Handles :
           /\ is_alive(h)
           /\ version(h) = 1
           /\ objects[h.inner].request_filter # None

\* C13: post_error through a handle to a live entry sets the owning client's
\* fault flag; the driver's teardown of a client leaves every entry of that
\* client dead, firing the destructor of each entry it kills exactly once; and
\* a faulted client is eventually torn down with all its entries dead.
C13_PostErrorTeardown ==
    /\ [][\A h \in Handles :
              (is_alive(h) /\ post_error(h)) =>
                  clients'[objects[h.inner].client].faulted]_vars
    /\ [][\A c \in Clients :
              driver_teardown(c) =>
                  \A e \in Created :
                      objects[e].client = c =>
                          /\ ~objects'[e].alive
                          /\ objects'[e].destructor_calls =
                                 IF objects[e].alive /\ objects[e].destructor_filter # None
                                 THEN 1
                                 ELSE objects[e].destructor_calls]_vars
    /\ \A c \in Clients :
           clients[c].faulted ~>
               (/\ ~clients[c].connected
                /\ \A e \in Created :
                       objects[e].client = c =>
                           ~objects[e].alive /\ objects[e].destructor_calls <= 1)

\* The driver has just torn down a faulted client whose entry had a destructor.
C13_Witness ==
    /\ last.op = "driver_teardown"
    /\ \E c \in Clients :
           /\ clients[c].faulted
           /\ ~clients[c].connected
           /\ \E e \in Created :
                  /\ objects[e].client = c
                  /\ ~objects[e].alive
                  /\ objects[e].destructor_filter # None
                  /\ objects[e].destructor_calls = 1

\* C14: creating, cloning and dropping handles, the last one included, leaves
\* every entry and client as it is; an entry dies only in a mark_dead or a
\* teardown step, and it can die while handles to it exist.
C14_HandlesDoNotOwnLifetime ==
    [][/\ \A h \in Handles :
              (clone_handle(h) \/ drop(h)) => UNCHANGED <<objects, clients, wire>>
       /\ \A c \in Clients, i \in Ids :
              lookup_handle(c, i) => UNCHANGED <<objects, clients, wire>>
       /\ \A e \in Created :
              (objects[e].alive /\ ~objects'[e].alive) =>
                  last'.op \in {"mark_dead", "client_disconnect", "driver_teardown"}]_vars

\* The last handle of a live entry has just been dropped, the entry lives on
\* with its filter, and a dead entry is still named by two handles.
C14_Witness ==
    /\ last.op = "drop"
    /\ \E e, o \in Created :
           /\ objects[e].alive
           /\ refs[e] = 0
           /\ objects[e].request_filter # None
           /\ ~objects[o].alive
           /\ refs[o] = 2

\* C15: without the native_lib feature is_external, c_ptr, init_from_c_ptr,
\* from_c_ptr and make_child_for always panic and change no entry, client or
\* handle, while send never raises that panic and is_alive, version, equals,
\* same_client_as, user_data, client and id all return a value.
C15_NativeMethodsPanic ==
    [][~native_lib =>
          /\ \A h \in Handles, i \in Ids :
                 (is_external(h) \/ c_ptr(h) \/ make_child_for(h, i)) =>
                     /\ last'.outcome = "panic_native_lib"
                     /\ last'.arg = None
                     /\ UNCHANGED <<objects, clients, wire, refs>>
          /\ \A ptr \in Ptrs, v \in 0..InterfaceMaxVersion :
                 (from_c_ptr(ptr, v) \/ (v > 0 /\ init_from_c_ptr(ptr, "c1", v))) =>
                     /\ last'.outcome = "panic_native_lib"
                     /\ last'.arg = None
                     /\ UNCHANGED <<objects, clients, wire, refs>>
          /\ \A h \in Handles, msg \in Events :
                 send(h, msg) => last'.outcome \in {"dropped", "panic", "sent"}
          /\ \A h, k \in Handles :
                 /\ is_alive(h) \in BOOLEAN
                 /\ version(h) \in 0..InterfaceMaxVersion
                 /\ equals(h, k) \in BOOLEAN
                 /\ same_client_as(h, k) \in BOOLEAN
                 /\ user_data(h) \in {None} \cup {Some(v) : v \in Values}
                 /\ client(h) \in {None} \cup {Some(Client_make(c)) : c \in Clients}
                 /\ id(h) \in Ids]_vars

\* A C interfacing method has just panicked on a handle to a live entry that
\* an event was sent on before.
C15_Witness ==
    /\ ~native_lib
    /\ last = Outcome("is_external", "panic_native_lib", None)
    /\ wire > 0
    /\ \E h \in Handles : is_alive(h)

\* C16: with send on one thread and mark_dead on the dispatch flow, in every
\* interleaving an event is transmitted only for an entry that is alive at
\* that moment, and send panics only for an event whose minimum version is
\* above the version the entry was created with: the race causes no fault.
C16_ConcurrentSendSafe ==
    [][\A r \in EntryRefs, msg \in Events :
           (sending # None /\ sending[1].self = wrap(r) /\ sending[1].msg = msg /\ sending' = None) =>
               /\ wire' > wire => objects[r].alive
               /\ last'.outcome = "panic" => since(msg) > objects[r].version]_vars

\* C17: assign, assign_mono and assign_destructor bind a filter to the
\* handle's entry and to no other; a request filter is invoked only for the
\* entry it is bound to, while that entry is alive and before its destructor
\* has run, so never after the destructor invocation.
C17_FilterLifecycle ==
    [][/\ last'.op \in {"assign", "assign_destructor"} =>
              \A h \in Handles, f \in Callbacks :
                  (assign(h, FilterNew(f)) \/ assign_mono(h, f) \/ assign_destructor(h, FilterNew(f))) =>
                      \A e \in EntryRefs \ {h.inner} : objects'[e] = objects[e]
       /\ (last'.op = "dispatch_request" /\ last'.outcome = "invoked") =>
              \E e \in Created, i \in Ids :
                  /\ objects[e].alive
                  /\ objects[e].destructor_calls = 0
                  /\ objects[e].id = i
                  /\ objects[e].request_filter # None
                  /\ last'.arg = Some(<<e, objects[e].request_filter[1]>>)
                  /\ dispatch_request(objects[e].client, i)]_vars

\* An id reused after its first entry's destructor ran: the request invokes
\* the filter of the live entry, not the one bound to the dead entry.
C17_Witness ==
    \E e, o \in Created :
        /\ last = Outcome("dispatch_request", "invoked", Some(<<e, FilterNew("f2")>>))
        /\ objects[e].alive
        /\ objects[e].destructor_filter # None
        /\ ~objects[o].alive
        /\ objects[o].destructor_calls = 1
        /\ objects[o].request_filter = Some(FilterNew("f1"))
        /\ objects[o].id = objects[e].id
        /\ objects[o].client = objects[e].client

\* C18: when an entry goes from alive to dead with a destructor filter
\* registered, the filter runs once and observes is_alive() = false and the
\* entry still found by lookup; before the step lookup finds the entry, after
\* the step lookup of its id finds nothing.
C18_MarkDeadOrdering ==
    [][\A e \in Created :
           (objects[e].alive /\ ~objects'[e].alive) =>
               /\ lookup(objects[e].client, objects[e].id) = Some(e)
               /\ lookup(objects[e].client, objects[e].id)' = None
               /\ objects[e].destructor_filter # None =>
                      /\ objects'[e].destructor_calls = 1
                      /\ objects'[e].destructor_saw = Some([is_alive |-> FALSE, lookup |-> TRUE])
               /\ objects[e].destructor_filter = None =>
                      objects'[e].destructor_saw = None]_vars

\* mark_dead has just run the destructor of an entry.
C18_Witness ==
    /\ last = Outcome("mark_dead", "dead", None)
    /\ \E e \in Created :
           /\ ~objects[e].alive
           /\ objects[e].destructor_calls = 1
           /\ objects[e].destructor_saw = Some([is_alive |-> FALSE, lookup |-> TRUE])
           /\ lookup(objects[e].client, objects[e].id) = None
           /\ \E o \in Created : objects[o].alive /\ objects[o].client = objects[e].client

\* C19: a request for a live entry without a request filter is dropped:
\* nothing is invoked and no entry, client or wire state changes; an assign
\* on the empty slot then registers its filter, and a request for an entry
\* with a filter invokes the filter registered on it.
C19_UnhandledRequestDropped ==
    [][/\ last'.op = "dispatch_request" =>
              \A c \in Clients, i \in Ids :
                  (lookup(c, i) # None /\ dispatch_request(c, i)) =>
                      IF objects[lookup(c, i)[1]].request_filter = None
                      THEN /\ last' = Outcome("dispatch_request", "dropped", None)
                           /\ UNCHANGED <<objects, clients, wire, refs>>
                      ELSE last' = Outcome("dispatch_request", "invoked",
                                           Some(<<lookup(c, i)[1],
                                                  objects[lookup(c, i)[1]].request_filter[1]>>))
       /\ last'.op \in {"assign", "assign_destructor"} =>
              \A h \in Handles, f \in Callbacks :
                  (objects[h.inner].request_filter = None /\ assign(h, FilterNew(f))) =>
                      /\ last' = Outcome("assign", "ok", None)
                      /\ objects'[h.inner].request_filter = Some(FilterNew(f))]_vars

\* A request has just been dropped: the only live entry has a destructor
\* filter but no request filter.
C19_Witness ==
    /\ last = Outcome("dispatch_request", "dropped", None)
    /\ \E e \in Created :
           /\ objects[e].alive
           /\ objects[e].request_filter = None
           /\ objects[e].destructor_filter # None
           /\ objects[e].destructor_calls = 0
           /\ \E o \in Created \ {e} : ~objects[o].alive /\ objects[o].request_filter # None

\* C20: with native_lib, send on an externally owned object, for which
\* is_alive() is false, is not dropped: it panics when the event's minimum
\* version is above version() and otherwise the backend transmits the event;
\* send is a silent no-op exactly for the objects that are neither external
\* nor alive.
C20_ExternalSendNotDropped ==
    [][(native_lib /\ last'.op = "send") =>
           \A h \in Handles, msg \in Events :
               send(h, msg) =>
                   /\ inner_is_external(h.inner) =>
                          /\ ~is_alive(h)
                          /\ IF since(msg) > version(h)
                             THEN /\ last' = Outcome("send", "panic", Some(<<h.inner, msg.opcode>>))
                                  /\ wire' = wire
                             ELSE /\ last' = Outcome("send", "sent", Some(<<h.inner, msg.opcode>>))
                                  /\ wire' = wire + 1
                   /\ (last'.outcome = "dropped") <=>
                          (~inner_is_external(h.inner) /\ ~is_alive(h))
                   /\ last'.outcome = "dropped" => wire' = wire]_vars

\* An event has just been transmitted for an externally owned object, next
\* to a dead managed entry.
C20_Witness ==
    /\ native_lib
    /\ \E h, k \in Handles, msg \in Events :
           /\ last = Outcome("send", "sent", Some(<<h.inner, msg.opcode>>))
           /\ inner_is_external(h.inner)
           /\ ~is_alive(h)
           /\ version(h) = InterfaceMaxVersion
           /\ ~inner_is_external(k.inner)
           /\ ~is_alive(k)
           /\ objects[k.inner].version = InterfaceMaxVersion

====
